---- MODULE Spec2Model ----
(***************************************************************************)
(* State-machine model of two ign-gazebo systems:                          *)
(*   - systems::LogPlayback (src/src/systems/log/LogPlayback.cc)           *)
(*   - systems::Altimeter   (src/src/systems/altimeter/Altimeter.cc)       *)
(* Spec    is a run of one LogPlayback instance (Configure, then Update).  *)
(* AltSpec is a run of one Altimeter instance (PreUpdate / PostUpdate).    *)
(*                                                                         *)
(* Abstractions: a pose is a scalar (its payload), a msgs::Pose carries an *)
(* id next to it; strings that are searched are sequences of characters.   *)
(***************************************************************************)
EXTENDS Integers, Sequences, FiniteSets, TLC

VARIABLES
  ecm,          \* the EntityComponentManager: entities and component maps
  batch,        \* LogPlaybackPrivate::batch, the recorded messages in order
  iter,         \* LogPlaybackPrivate::iter, index into batch; Len(batch)+1 = end()
  printedEnd,   \* LogPlaybackPrivate::printedEnd
  errLog,       \* what was written to ignerr, in order
  warnLog,      \* what was written to ignwarn, in order
  msgLog,       \* what was written to ignmsg, in order
  events,       \* LoadPlugins events emitted on the EventManager, in order
  logOpened,    \* whether transport::log::Log::Open was called
  disk,         \* the log directory Configure is pointed at (never written)
  initialized,      \* AltimeterPrivate::initialized
  entitySensorMap,  \* AltimeterPrivate::entitySensorMap: entity -> sensor record
  crashed,      \* the process died on an invalid memory access
  phase,        \* the hook of the Altimeter system the tick calls next
  last          \* the last hook called, with its UpdateInfo and what it emitted

vars == <<ecm, batch, iter, printedEnd, errLog, warnLog, msgLog, events,
          logOpened, disk, initialized, entitySensorMap, crashed, phase, last>>

logVars == <<batch, iter, printedEnd, errLog, warnLog, msgLog, events,
             logOpened, disk>>

altVars == <<initialized, entitySensorMap, crashed, phase>>

----------------------------------------------------------------------------
(* Bounds *)
MaxLog == 2         \* messages in a recorded log
MaxTime == 2        \* simulated time runs 0..MaxTime
MaxModels == 1      \* <model> elements of the recorded world
MaxLights == 1      \* <light> elements of the recorded world
MaxPlugins == 2     \* <plugin> elements of the recorded world

----------------------------------------------------------------------------
(* The EntityComponentManager *)

\* The world entity handed to Configure.
kWorld == 1
\* Pose of an entity created from the scene description (sdf default pose).
kSdfPose == 0

Max(a, b) == IF a > b THEN a ELSE b

RECURSIVE SetMax(_)
SetMax(S) == IF S = {} THEN 0
             ELSE LET x == CHOOSE y \in S : TRUE IN Max(x, SetMax(S \ {x}))

\* Entities that carry a Pose component: what Each<components::Pose> visits.
PoseEntities(e) == DOMAIN e.pose

\* An ECM that holds the world entity only. Components are maps from the
\* entities that carry them; entityCount is the last identifier handed out.
EmptyEcm ==
  [entities |-> {kWorld}, entityCount |-> kWorld, world |-> {kWorld},
   name |-> (kWorld :> "world"), parent |-> <<>>, pose |-> <<>>,
   altimeter |-> <<>>, worldPose |-> <<>>, worldLinVel |-> <<>>]

\* Component<K>(entity) on the component map c: present or the null sentinel.
Has(c, x) == x \in DOMAIN c

\* A component map with entity x set to v.
With(c, x, v) == [y \in DOMAIN c \cup {x} |-> IF y = x THEN v ELSE c[y]]

\* A component map without the entities of S.
Without(c, S) == [y \in DOMAIN c \ S |-> c[y]]

\* SdfEntityCreator::CreateEntities + SetParent for n models or lights:
\* n fresh entities, each with a Pose component, parented to the world.
CreateEntities(e, n) ==
  LET new == (e.entityCount + 1)..(e.entityCount + n)
  IN [e EXCEPT
        !.entities = @ \cup new,
        !.entityCount = @ + n,
        !.pose = [x \in DOMAIN @ \cup new |-> IF x \in new THEN kSdfPose ELSE @[x]],
        !.parent = [x \in DOMAIN @ \cup new |-> IF x \in new THEN kWorld ELSE @[x]]]

\* EntityComponentManager::SetState: entities of the snapshot that are absent
\* are created, components of the snapshot overwrite existing ones.
SetState(e, snap) ==
  [e EXCEPT
     !.entities = @ \cup DOMAIN snap,
     !.entityCount = Max(@, SetMax(DOMAIN snap)),
     !.pose = [x \in DOMAIN @ \cup DOMAIN snap |->
                 IF x \in DOMAIN snap THEN snap[x] ELSE @[x]]]

----------------------------------------------------------------------------
(* Messages of a log *)

PoseVType == "ignition.msgs.Pose_V"
SerializedStateType == "ignition.msgs.SerializedState"
OtherType == "ignition.msgs.Clock"

\* A msgs::Pose entry of a Pose_V message.
P(i, p) == [id |-> i, pos |-> p]

\* msgs::Convert(msgs::Pose): the math pose of the entry; the id is dropped.
Convert(mp) == mp.pos

\* Entity 1 is the world (no Pose component), 2 and 3 are scene entities,
\* 9 is no entity.
PoseVPayloads ==
  { <<P(2, 1)>>, <<P(2, 1), P(2, 2)>>, <<P(2, 2), P(3, 1)>>, <<P(1, 1), P(9, 2)>> }

StatePayloads == { (3 :> 1) @@ (4 :> 2) }

NoPoses == <<>>
NoState == <<>>

MsgBodies ==
  [type : {PoseVType}, poses : PoseVPayloads, state : {NoState}]
    \cup [type : {SerializedStateType}, poses : {NoPoses}, state : StatePayloads]
    \cup [type : {OtherType}, poses : {NoPoses}, state : {NoState}]

Msg(t, b) == [time |-> t, type |-> b.type, poses |-> b.poses, state |-> b.state]

Times == 0..MaxTime

\* Logs of exactly n messages, in non-decreasing TimeReceived order (the order
\* in which QueryMessages returns them).
RECURSIVE LogsFrom(_, _)
LogsFrom(n, t0) ==
  IF n = 0 THEN { <<>> }
  ELSE UNION { { <<Msg(t, b)>> \o rest : rest \in LogsFrom(n - 1, t) } :
               t \in t0..MaxTime, b \in MsgBodies }

Logs == UNION { LogsFrom(n, 0) : n \in 0..MaxLog }

----------------------------------------------------------------------------
(* The recorded scene description (state.sdf) *)

\* "LogRecord" and "Physics", the substrings Configure searches for.
LogRecordStr == <<"L", "o", "g", "R", "e", "c", "o", "r", "d">>
PhysicsStr == <<"P", "h", "y", "s", "i", "c", "s">>

\* std::string::find(sub) != npos
Contains(s, sub) ==
  \E i \in 1..(Len(s) - Len(sub) + 1) : SubSeq(s, i, i + Len(sub) - 1) = sub

\* A <plugin> element: whether it has a name attribute, and the name.
Plugin(n) == [hasName |-> TRUE, name |-> n]
NamelessPlugin == [hasName |-> FALSE, name |-> <<>>]

PluginDecls ==
  { Plugin(<<"M", "y">> \o LogRecordStr),                \* MyLogRecord
    Plugin(<<"B", "u", "l", "l", "e", "t">> \o PhysicsStr), \* BulletPhysics
    Plugin(<<"K", "e", "y", "b", "o", "a", "r", "d">>),  \* Keyboard
    Plugin(<<"L", "o", "g", "R", "e", "c", "o", "r">>),  \* LogRecor
    Plugin(<<"p", "h", "y", "s", "i", "c", "s">>),       \* physics
    NamelessPlugin }

RECURSIVE SeqsUpTo(_, _)
SeqsUpTo(S, n) ==
  IF n = 0 THEN { <<>> }
  ELSE LET shorter == SeqsUpTo(S, n - 1)
       IN shorter \cup { Append(s, x) : s \in shorter, x \in S }

PluginLists == SeqsUpTo(PluginDecls, MaxPlugins)

\* The test of lines 192-197: flagged for removal.
FlagOnlyLogRecord(pl) == pl.hasName /\ Contains(pl.name, LogRecordStr)

FlaggedForRemoval(pl) ==
  pl.hasName /\ (Contains(pl.name, LogRecordStr) \/ Contains(pl.name, PhysicsStr))

\* The while loop of lines 185-209: the elements pushed to pluginsRm, as the
\* positions of the elements in the world's plugin list.
RECURSIVE PluginsRm(_, _, _)
PluginsRm(plugins, i, rm) ==
  IF i > Len(plugins) THEN rm
  ELSE PluginsRm(plugins, i + 1,
                 IF FlaggedForRemoval(plugins[i]) THEN Append(rm, i) ELSE rm)

\* The loop of lines 212-217: RemoveFromParent of every flagged element; the
\* other children keep their order.
RECURSIVE RemoveFromParent(_, _, _)
RemoveFromParent(plugins, rm, i) ==
  IF i > Len(plugins) THEN <<>>
  ELSE (IF \E k \in 1..Len(rm) : rm[k] = i THEN <<>> ELSE <<plugins[i]>>)
         \o RemoveFromParent(plugins, rm, i + 1)

SurvivingPlugins(plugins) ==
  RemoveFromParent(plugins, PluginsRm(plugins, 1, <<>>), 1)

Scene(ps, nm, nl) == [plugins |-> ps, nModels |-> nm, nLights |-> nl]

FullScene ==
  Scene(<<Plugin(<<"M", "y">> \o LogRecordStr),
          Plugin(<<"K", "e", "y", "b", "o", "a", "r", "d">>)>>,
        MaxModels, MaxLights)

Scenes ==
  { Scene(ps, MaxModels, MaxLights) : ps \in PluginLists }
    \cup { Scene(<<>>, nm, nl) : nm \in 0..MaxModels, nl \in 0..MaxLights }

----------------------------------------------------------------------------
(* Inputs of Configure *)

\* What the filesystem, the sdf loader and the log library answer.
FsAnswers ==
  [pathEmpty : BOOLEAN, isDirectory : BOOLEAN, dbExists : BOOLEAN,
   sdfExists : BOOLEAN, sdfErrors : 0..1, worldCount : 0..1, logOpens : BOOLEAN]

GoodFs ==
  [pathEmpty |-> FALSE, isDirectory |-> TRUE, dbExists |-> TRUE,
   sdfExists |-> TRUE, sdfErrors |-> 0, worldCount |-> 1, logOpens |-> TRUE]

ConfigInput(fs, sc, lg) == [fs |-> fs, scene |-> sc, log |-> lg]

SmallLogs == { <<>>, <<Msg(1, [type |-> PoseVType, poses |-> <<P(2, 1)>>, state |-> NoState])>> }

ConfigInputs ==
  { ConfigInput(GoodFs, FullScene, lg) : lg \in Logs }
    \cup { ConfigInput(GoodFs, sc, lg) : sc \in Scenes, lg \in SmallLogs }
    \cup { ConfigInput(fs, FullScene, lg) : fs \in FsAnswers, lg \in SmallLogs }

----------------------------------------------------------------------------
(* LogPlayback *)

ErrNoPath == "Unspecified log path to playback. Nothing to play."
ErrNotDir == "Specified log path must be a directory."
ErrNoFiles == "Log path invalid. File(s) do not exist. Nothing to play."
ErrSdf == "Error loading SDF file"
ErrOpen == "Failed to open log file"
ErrEmpty == "No messages found in log file"
MsgLoading == "Loading log files"
MsgFinished == "Finished playing all recorded data"
WarnUnsupported == "Trying to playback unsupported message type"

\* batch.end(); also the value of a default-constructed MsgIter.
End(b) == Len(b) + 1

\* std::map::insert_or_assign
InsertKeepFirst(m, k, v) == IF k \in DOMAIN m THEN m ELSE m @@ (k :> v)

InsertOrAssign(m, k, v) == [x \in DOMAIN m \cup {k} |-> IF x = k THEN v ELSE m[x]]

\* The loop of lines 93-99: idToPose after entries i..pose_size() are read.
RECURSIVE IdToPose(_, _, _)
IdToPose(posev, i, m) ==
  IF i > Len(posev) THEN m
  ELSE IdToPose(posev, i + 1, InsertOrAssign(m, posev[i].id, posev[i]))

\* LogPlaybackPrivate::ParsePoseV: the ECM after the message is applied.
ParsePoseVCreating(e, posev) ==
  LET idToPose == IdToPose(posev, 1, <<>>)
  IN [e EXCEPT !.pose =
        [x \in PoseEntities(e) \cup DOMAIN idToPose |->
           IF x \notin DOMAIN idToPose THEN e.pose[x] ELSE Convert(idToPose[x])]]

ParsePoseV(e, posev) ==
  LET idToPose == IdToPose(posev, 1, <<>>)
  IN [e EXCEPT !.pose =
        [x \in PoseEntities(e) |->
           IF x \notin DOMAIN idToPose THEN e.pose[x] ELSE Convert(idToPose[x])]]

\* LogPlaybackPrivate::ParseSerializedState
ParseSerializedState(e, snap) == SetState(e, snap)

\* Transport::log::Log::QueryMessages: every message of an opened log, in
\* recorded order; nothing from a log that is not open.
QueryMessages(opened, lg) == IF opened THEN lg ELSE <<>>

\* The errors of lines 245-259, in the order they are written.
LogErrors(opened, b) ==
  (IF ~opened THEN <<ErrOpen>> ELSE <<>>) \o (IF b = <<>> THEN <<ErrEmpty>> ELSE <<>>)

\* The checks of lines 136-162 on the path: the error reported, or "".
PathError(fs) ==
  IF fs.pathEmpty THEN ErrNoPath
  ELSE IF ~fs.isDirectory THEN ErrNotDir
  ELSE IF ~fs.dbExists \/ ~fs.sdfExists THEN ErrNoFiles
  ELSE ""

\* The early checks of lines 136-174: the error reported, or "" when all pass.
EarlyErrorPathOnly(fs) == PathError(fs)

EarlyError(fs) ==
  IF PathError(fs) # "" THEN PathError(fs)
  ELSE IF fs.sdfErrors # 0 \/ fs.worldCount <= 0 THEN ErrSdf
  ELSE ""

\* LogPlayback::Configure, called once, before any Update.
Configure ==
  /\ last.op = "none"
  /\ last' = [op |-> "Configure", paused |-> FALSE, simTime |-> 0]
  /\ UNCHANGED <<disk, printedEnd, warnLog>>
  /\ UNCHANGED altVars
  /\ msgLog' = (IF PathError(disk.fs) = "" THEN Append(msgLog, MsgLoading) ELSE msgLog)
  /\ IF EarlyError(disk.fs) # ""
     THEN /\ errLog' = Append(errLog, EarlyError(disk.fs))
          /\ UNCHANGED <<ecm, batch, iter, events, logOpened>>
     ELSE LET surviving == SurvivingPlugins(disk.scene.plugins)
              models    == CreateEntities(ecm, disk.scene.nModels)
              lights    == CreateEntities(models, disk.scene.nLights)
              b         == QueryMessages(disk.fs.logOpens, disk.log)
          IN /\ ecm' = lights
             /\ events' = Append(events, [world |-> kWorld, plugins |-> surviving])
             /\ logOpened' = TRUE
             /\ batch' = b
             /\ iter' = 1
             /\ errLog' = errLog \o LogErrors(disk.fs.logOpens, b)

\* _info.paused (line 265)
NeverPaused(paused) == FALSE

IsPaused(paused) == paused

\* _info.simTime < msgStamp (line 284)
NotYetDueOffByOne(simTime, msgStamp) == simTime + 1 < msgStamp

NotYetDueStrict(simTime, msgStamp) == simTime <= msgStamp

NotYetDue(simTime, msgStamp) == simTime < msgStamp

\* ++iter (line 305)
AdvanceSkipping(i) == IF i + 2 <= End(batch) THEN i + 2 ELSE i + 1

AdvanceStuck(i) == i

Advance(i) == i + 1

\* Lines 273-277: whether the completion message is written.
PrintAlways(printed) == TRUE

PrintEnd(printed) == ~printed

\* The dispatch of lines 291-303 on the message type.
DispatchNoWarning(msgType) ==
  IF msgType = SerializedStateType THEN "SerializedState" ELSE "Pose_V"

Dispatch(msgType) ==
  IF msgType = PoseVType THEN "Pose_V"
  ELSE IF msgType = SerializedStateType THEN "SerializedState"
  ELSE "unsupported"

\* LogPlayback::Update, called once per tick after Configure. UpdateInfo's
\* simTime never decreases from one call to the next (there is no rewind).
Update(paused, simTime) ==
  /\ last.op # "none"
  /\ simTime >= last.simTime
  /\ last' = [op |-> "Update", paused |-> paused, simTime |-> simTime]
  /\ UNCHANGED <<disk, batch, errLog, events, logOpened>>
  /\ UNCHANGED altVars
  /\ IF IsPaused(paused)
     THEN UNCHANGED <<ecm, iter, printedEnd, warnLog, msgLog>>
     ELSE IF iter = End(batch)
     THEN /\ msgLog' = IF PrintEnd(printedEnd) THEN Append(msgLog, MsgFinished)
                       ELSE msgLog
          /\ printedEnd' = (IF PrintEnd(printedEnd) THEN TRUE ELSE printedEnd)
          /\ UNCHANGED <<ecm, iter, warnLog>>
     ELSE IF NotYetDue(simTime, batch[iter].time)
     THEN UNCHANGED <<ecm, iter, printedEnd, warnLog, msgLog>>
     ELSE LET msg == batch[iter]
              kind == Dispatch(msg.type)
          IN /\ ecm' = (IF kind = "Pose_V" THEN ParsePoseV(ecm, msg.poses)
                        ELSE IF kind = "SerializedState"
                        THEN ParseSerializedState(ecm, msg.state)
                        ELSE ecm)
             /\ warnLog' = (IF kind = "unsupported"
                            THEN Append(warnLog, WarnUnsupported) ELSE warnLog)
             /\ iter' = Advance(iter)
             /\ UNCHANGED <<printedEnd, msgLog>>

Init ==
  /\ disk \in ConfigInputs
  /\ ecm = EmptyEcm
  /\ batch = <<>>
  /\ iter = 1
  /\ printedEnd = FALSE
  /\ errLog = <<>>
  /\ warnLog = <<>>
  /\ msgLog = <<>>
  /\ events = <<>>
  /\ logOpened = FALSE
  /\ initialized = FALSE
  /\ entitySensorMap = <<>>
  /\ crashed = FALSE
  /\ phase = "PreUpdate"
  /\ last = [op |-> "none", paused |-> FALSE, simTime |-> 0]

Next ==
  \/ Configure
  \/ \E paused \in BOOLEAN, simTime \in Times : Update(paused, simTime)

Spec == Init /\ [][Next]_vars

----------------------------------------------------------------------------
(* Properties of LogPlayback *)

\* The step is a call of Update.
UpdateCalled == last'.op = "Update"

\* The step is a call of Update that is not paused.
UpdateRan == last'.op = "Update" /\ ~last'.paused

\* The cursor stands on a message.
OnMessage == iter <= Len(batch)

\* How often the completion message was written.
FinishedCount == Cardinality({ i \in 1..Len(msgLog) : msgLog[i] = MsgFinished })

\* C1: an Update call with paused = true, wherever the cursor stands, leaves
\* the ECM, the cursor and the printedEnd latch as they are and writes nothing
\* (no completion message, no warning, no error).
C1_PausedUpdateChangesNothing ==
  [][(UpdateCalled /\ last'.paused) =>
       UNCHANGED <<ecm, batch, iter, printedEnd, errLog, warnLog, msgLog, events>>]_vars

\* A paused Update was called with the cursor in the middle of the log.
C1_Witness ==
  last.op = "Update" /\ last.paused /\ 1 < iter /\ iter < End(batch)

\* C2: an Update call consumes a message (applies it to the ECM, or skips it
\* with a warning, and moves the cursor) only if its simTime is at or past
\* the TimeReceived of the message under the cursor; an Update call whose
\* simTime is before it changes neither the ECM nor the cursor.
C2_AppliedOnlyWhenDue ==
  [][/\ (UpdateCalled /\ (ecm' # ecm \/ iter' # iter \/ warnLog' # warnLog)) =>
          (OnMessage /\ last'.simTime >= batch[iter].time)
     /\ (UpdateCalled /\ OnMessage /\ last'.simTime < batch[iter].time) =>
          UNCHANGED <<ecm, iter>>]_vars

\* A running Update found the next message not yet due, after an earlier
\* message had been played.
C2_Witness ==
  /\ last.op = "Update" /\ ~last.paused
  /\ 1 < iter /\ iter <= Len(batch)
  /\ last.simTime < batch[iter].time

\* C3: the cursor stays within the log, never moves backward, and every
\* Update call moves it by zero or exactly one position over a log that no
\* call changes.
C3_CursorForwardOneAtATime ==
  /\ [](iter \in 1..End(batch))
  /\ [][UpdateCalled => (batch' = batch /\ (iter' = iter \/ iter' = iter + 1))]_vars
  /\ [][iter' >= iter]_vars

\* A log of at least two messages was played to its end.
C3_Witness == Len(batch) >= 2 /\ iter = End(batch) /\ last.op = "Update"

\* Configure passed every check and reported no error.
ConfigSucceeded == last.op # "none" /\ errLog = <<>>

\* Every message of the log is a Pose_V message.
AllPoseV(lg) == \A k \in 1..Len(lg) : lg[k].type = PoseVType

\* Every msgs::Pose entry of the log, in recorded order.
RECURSIVE Entries(_)
Entries(lg) == IF lg = <<>> THEN <<>> ELSE Head(lg).poses \o Entries(Tail(lg))

\* The positions in the log's entries that mention entity e.
Mentions(lg, e) == { i \in 1..Len(Entries(lg)) : Entries(lg)[i].id = e }

\* The pose the last entry mentioning e gives it.
LastRecordedPose(lg, e) == Entries(lg)[SetMax(Mentions(lg, e))].pos

PosesAreLastRecorded ==
  \A e \in PoseEntities(ecm) :
    Mentions(disk.log, e) # {} => ecm.pose[e] = LastRecordedPose(disk.log, e)

\* C4 as stated: once simulated time has reached the TimeReceived of the last
\* message of a Pose_V log, every entity's Pose is its last recorded pose.
C4_AsStated ==
  (/\ ConfigSucceeded /\ AllPoseV(disk.log)
   /\ last.op = "Update" /\ ~last.paused
   /\ last.simTime >= disk.log[Len(disk.log)].time)
    => PosesAreLastRecorded

\* C4, amended: for a log of Pose_V messages, once the run has made enough
\* running Update calls for the cursor to be exhausted (one message is
\* consumed per call), every entity's Pose is its last recorded pose.
C4_FinalPoseOnceExhausted ==
  (/\ ConfigSucceeded /\ AllPoseV(disk.log)
   /\ last.op = "Update" /\ iter = End(batch))
    => PosesAreLastRecorded

\* A Pose_V log was played to its end, and an entity with a Pose component
\* was mentioned more than once with different poses.
C4_Witness ==
  /\ ConfigSucceeded /\ AllPoseV(disk.log) /\ Len(disk.log) >= 2
  /\ last.op = "Update" /\ iter = End(batch)
  /\ \E e \in PoseEntities(ecm) :
       /\ Cardinality(Mentions(disk.log, e)) >= 2
       /\ \E i \in Mentions(disk.log, e) :
            Entries(disk.log)[i].pos # LastRecordedPose(disk.log, e)

\* C5 as stated: a running Update call consumes every message whose
\* TimeReceived its simTime has reached.
C5_AsStated ==
  [][UpdateRan =>
       \A k \in iter..Len(batch) : batch[k].time <= last'.simTime => iter' > k]_vars

\* C5, amended: the message under the cursor is played by the first running
\* Update call whose simTime is at or past its TimeReceived; a message behind
\* it in the log waits for a later call even when it is already due.
C5_CurrentMessagePlayedWhenDue ==
  [][(UpdateRan /\ OnMessage /\ batch[iter].time <= last'.simTime) =>
       iter' = iter + 1]_vars

\* A message with a TimeReceived after the start of the run was played by a
\* running Update call at exactly that time.
C5_Witness ==
  /\ last.op = "Update" /\ ~last.paused /\ iter > 1
  /\ batch[iter - 1].time = last.simTime
  /\ last.simTime > 0

\* C6: with the cursor exhausted, an Update call changes neither the ECM nor
\* the cursor; a running one writes the completion message if and only if it
\* was not written before and sets the latch, a paused one writes nothing;
\* so the completion message is written at most once, exactly when the latch
\* is set, and only with the cursor exhausted.
C6_CompletionOnce ==
  /\ [][(UpdateCalled /\ iter = End(batch)) =>
          /\ UNCHANGED <<ecm, iter>>
          /\ ~last'.paused =>
               /\ printedEnd'
               /\ msgLog' = IF printedEnd THEN msgLog ELSE Append(msgLog, MsgFinished)
          /\ last'.paused => UNCHANGED <<printedEnd, msgLog>>]_vars
  /\ [](FinishedCount = IF printedEnd THEN 1 ELSE 0)
  /\ [](printedEnd => iter = End(batch))

\* A log was played to its end and the completion message was written.
C6_Witness ==
  printedEnd /\ Len(batch) >= 1 /\ FinishedCount = 1 /\ last.op = "Update"

\* Configure hit one of the configuration errors.
ConfigFails ==
  EarlyError(disk.fs) # "" \/ ~disk.fs.logOpens \/ disk.log = <<>>

\* C7: after a Configure that hit a configuration error, exactly one error
\* has been reported, and Update calls find nothing to play: the cursor is
\* exhausted and the ECM is as Configure left it.
C7_AsStated ==
  (last.op # "none" /\ ConfigFails) => (Len(errLog) = 1 /\ iter = End(batch))

\* An independent reading of "the name contains sub".
HasSubstring(name, sub) ==
  \E i \in 0..Len(name), j \in 0..Len(name) :
    i + Len(sub) + j = Len(name)
      /\ name = SubSeq(name, 1, i) \o sub \o SubSeq(name, Len(name) - j + 1, Len(name))

Disallowed(pl) ==
  pl.hasName /\ (HasSubstring(pl.name, LogRecordStr) \/ HasSubstring(pl.name, PhysicsStr))

Allowed(pl) == ~Disallowed(pl)

\* C8: a Configure that passes the scene checks emits exactly one LoadPlugins
\* event, for the world entity, whose plugin declarations are those of the
\* recorded scene that are not named *LogRecord* or *Physics*, in order.
C8_OnlyAllowedPluginsForwarded ==
  (last.op # "none" /\ EarlyError(disk.fs) = "") =>
     events = <<[world |-> kWorld,
                 plugins |-> SelectSeq(disk.scene.plugins, Allowed)]>>

\* Configure succeeded on a scene of which some plugins were removed and
\* some were kept.
C8_Witness ==
  /\ ConfigSucceeded /\ Len(events) = 1
  /\ Len(events[1].plugins) >= 1
  /\ Len(events[1].plugins) < Len(disk.scene.plugins)

\* C9: a running Update call that finds a due message of a type other than
\* Pose_V and SerializedState writes one warning, leaves the ECM unchanged
\* and moves the cursor by exactly one.
C9_UnsupportedSkipped ==
  [][(/\ UpdateRan /\ OnMessage /\ batch[iter].time <= last'.simTime
      /\ batch[iter].type \notin {PoseVType, SerializedStateType}) =>
       (/\ warnLog' = Append(warnLog, WarnUnsupported)
        /\ ecm' = ecm
        /\ iter' = iter + 1)]_vars

\* An unsupported message was skipped and the Pose_V message after it was
\* played.
C9_Witness ==
  /\ Len(batch) >= 2 /\ iter = End(batch)
  /\ batch[1].type = OtherType /\ batch[2].type = PoseVType
  /\ Len(warnLog) = 1
  /\ \E e \in PoseEntities(ecm) : ecm.pose[e] # kSdfPose

----------------------------------------------------------------------------
(* Altimeter *)

MaxZ == 1          \* local poses of the initial world are 0..MaxZ
MaxSensors == 2    \* altimeter sensors at a time, destroyed ones with a record included
MaxEntities == 5   \* identifiers the ECM hands out in a run

\* What physics derives for a sensor: world height and vertical velocity.
Motions == { <<0, 0>>, <<2, 1>> }

\* The elements of a set of entities in ascending order.
RECURSIVE SortedSeq(_)
SortedSeq(S) ==
  IF S = {} THEN <<>>
  ELSE LET m == SetMax(S) IN Append(SortedSeq(S \ {m}), m)

\* The <topic> element of an altimeter's sdf.
NoTopic == [hasTopic |-> FALSE, topic |-> ""]
Topic(t) == [hasTopic |-> TRUE, topic |-> t]

\* Topic names the transport refuses to advertise.
InvalidTopics == { "/bad topic" }

\* transport::Node::Advertise returns a valid publisher.
AdvertiseOk(topic) == topic \notin InvalidTopics

\* AltimeterSensor::Load: the topic after loading the sdf.
Load(sdf) == IF sdf.hasTopic THEN sdf.topic ELSE ""

\* Util::WorldPose(_entity, _ecm).Pos().Z(): the local poses composed along
\* the parent chain up to the world root.
RECURSIVE WorldPoseZ(_, _)
WorldPoseZ(x, e) ==
  (IF Has(e.pose, x) THEN e.pose[x] ELSE 0)
    + (IF Has(e.parent, x) /\ x \notin e.world THEN WorldPoseZ(e.parent[x], e) ELSE 0)

\* The loop of lines 241-251, entered with p the ParentEntity component of
\* entity x (null when x has none) and the topic built so far.
ModelLoopOnce(x, e, topic) ==
  IF ~Has(e.parent, x) THEN topic
  ELSE LET a == e.parent[x]
       IN IF a \in e.world THEN topic
          ELSE "/model/" \o e.name[a] \o topic

RECURSIVE ModelLoop(_, _, _)
ModelLoop(x, e, topic) ==
  IF ~Has(e.parent, x) THEN topic
  ELSE LET a == e.parent[x]
       IN IF a \in e.world THEN topic
          ELSE ModelLoop(a, e, "/model/" \o e.name[a] \o topic)

\* Whether the loop of lines 241-251 dereferences only present components.
RECURSIVE ModelPrefixDefined(_, _)
ModelPrefixDefined(x, e) ==
  IF ~Has(e.parent, x) THEN TRUE
  ELSE LET a == e.parent[x]
       IN IF a \in e.world THEN TRUE
          ELSE Has(e.name, a) /\ ModelPrefixDefined(a, e)

\* Whether DefaultTopic dereferences only present components.
DefaultTopicDefined(x, e) ==
  /\ Has(e.name, x)
  /\ Has(e.parent, x)
  /\ Has(e.name, e.parent[x])
  /\ ModelPrefixDefined(e.parent[x], e)

\* AltimeterPrivate::DefaultTopic, where it is defined.
DefaultTopic(x, e) ==
  ModelLoop(e.parent[x], e,
            "/link/" \o e.name[e.parent[x]] \o "/sensor/" \o e.name[x] \o "/altimeter")

\* What a read of a string through a null component pointer may yield when
\* it does not end the process.
GarbageNames == { "", "garbage" }

\* The entity a read through a null ParentEntity pointer yields: one without
\* components.
kNullEntity == 0

\* Component<Name>(x)->Data(), with g read when the component is absent.
NameOr(x, e, g) == IF Has(e.name, x) THEN e.name[x] ELSE g

\* The loop of lines 241-251 when absent names read as g.
RECURSIVE ModelLoopOr(_, _, _, _)
ModelLoopOr(x, e, g, topic) ==
  IF ~Has(e.parent, x) THEN topic
  ELSE LET a == e.parent[x]
       IN IF a \in e.world THEN topic
          ELSE ModelLoopOr(a, e, g, "/model/" \o NameOr(a, e, g) \o topic)

\* AltimeterPrivate::DefaultTopic when its reads through null pointers do
\* not end the process and yield g.
DefaultTopicOr(x, e, g) ==
  LET link == IF Has(e.parent, x) THEN e.parent[x] ELSE kNullEntity
  IN ModelLoopOr(link, e, g,
       "/link/" \o NameOr(link, e, g) \o "/sensor/" \o NameOr(x, e, g) \o "/altimeter")

\* The entities CreateAltimeterEntities asks DefaultTopic about.
NeedsDefault(e) == { x \in DOMAIN e.altimeter : Load(e.altimeter[x]) = "" }

\* The body of the visitor of lines 175-194 for entity x; dflt is what
\* DefaultTopic returned for it.
NewSensorWithoutDefault(x, e, dflt) ==
  [topic |-> Load(e.altimeter[x]),
   verticalPosition |-> 0,
   verticalVelocity |-> 0,
   verticalReference |-> WorldPoseZ(x, e),
   pub |-> FALSE]

NewSensor(x, e, dflt) ==
  [topic |-> IF Load(e.altimeter[x]) = "" THEN dflt ELSE Load(e.altimeter[x]),
   verticalPosition |-> 0,
   verticalVelocity |-> 0,
   verticalReference |-> WorldPoseZ(x, e),
   pub |-> FALSE]

\* AltimeterPrivate::CreateAltimeterEntities: the map after every entity with
\* an Altimeter component was visited; dflts gives DefaultTopic's results.
\* std::unordered_map::insert keeps a record that is already there.
CreateAltimeterEntities(m, e, dflts) ==
  [x \in DOMAIN m \cup DOMAIN e.altimeter |->
     IF x \in DOMAIN m THEN m[x] ELSE NewSensor(x, e, dflts[x])]

AltLast(op, paused, published, advertised, errors) ==
  [op |-> op, paused |-> paused, published |-> published,
   advertised |-> advertised, errors |-> errors]

\* The guard of line 147.
AlwaysCreate(done) == TRUE

MustCreate(done) == ~done

\* Altimeter::PreUpdate, the first hook of the system in every tick.
PreUpdate ==
  /\ ~crashed
  /\ phase = "PreUpdate"
  /\ phase' = "PostUpdate"
  /\ UNCHANGED <<ecm>>
  /\ UNCHANGED logVars
  /\ last' = AltLast("PreUpdate", FALSE, <<>>, <<>>, <<>>)
  /\ IF ~MustCreate(initialized)
     THEN UNCHANGED <<initialized, entitySensorMap, crashed>>
     ELSE IF \A x \in NeedsDefault(ecm) : DefaultTopicDefined(x, ecm)
     THEN /\ entitySensorMap' =
               CreateAltimeterEntities(entitySensorMap, ecm,
                 [x \in DOMAIN ecm.altimeter |->
                    IF x \in NeedsDefault(ecm) THEN DefaultTopic(x, ecm) ELSE ""])
          /\ initialized' = TRUE
          /\ UNCHANGED crashed
     ELSE \* DefaultTopic reads through a null pointer: undefined behaviour.
          \/ /\ crashed' = TRUE
             /\ UNCHANGED <<initialized, entitySensorMap>>
          \/ \E g \in GarbageNames :
               /\ entitySensorMap' =
                    CreateAltimeterEntities(entitySensorMap, ecm,
                      [x \in DOMAIN ecm.altimeter |->
                         IF x \notin NeedsDefault(ecm) THEN ""
                         ELSE DefaultTopicOr(x, ecm, g)])
               /\ initialized' = TRUE
               /\ UNCHANGED crashed

\* The entities Each<Altimeter, WorldPose, WorldLinearVelocity> visits.
Matched(e) == DOMAIN e.altimeter \cap DOMAIN e.worldPose \cap DOMAIN e.worldLinVel

\* AltimeterPrivate::UpdateAltimeters: the map after the visit.
UpdateAltimetersAddingReference(m, e) ==
  [x \in DOMAIN m |->
     IF x \notin Matched(e) THEN m[x]
     ELSE [m[x] EXCEPT !.verticalPosition = e.worldPose[x] + m[x].verticalReference,
                       !.verticalVelocity = e.worldLinVel[x]]]

UpdateAltimetersStoppingAtMissing(m, e) ==
  [x \in DOMAIN m |->
     IF x \notin Matched(e) \/ Matched(e) \ DOMAIN m # {} THEN m[x]
     ELSE [m[x] EXCEPT !.verticalPosition = e.worldPose[x] - m[x].verticalReference,
                       !.verticalVelocity = e.worldLinVel[x]]]

UpdateAltimeters(m, e) ==
  [x \in DOMAIN m |->
     IF x \notin Matched(e) THEN m[x]
     ELSE [m[x] EXCEPT !.verticalPosition = e.worldPose[x] - m[x].verticalReference,
                       !.verticalVelocity = e.worldLinVel[x]]]

\* The errors UpdateAltimeters writes: the matched entities without a record.
UpdateErrors(m, e) == SortedSeq(Matched(e) \ DOMAIN m)

\* AltimeterSensor::Publish, lines 121-126: Advertise is called.
Advertises(rec) == rec.topic # "" /\ ~rec.pub

\* AltimeterSensor::Publish: the record afterwards.
AfterPublish(rec) ==
  [rec EXCEPT !.pub = rec.pub \/ (Advertises(rec) /\ AdvertiseOk(rec.topic))]

\* AltimeterSensor::Publish: the message handed to a valid publisher.
Reading(x, rec) ==
  [entity |-> x, topic |-> rec.topic,
   vertical_position |-> rec.verticalPosition,
   vertical_velocity |-> rec.verticalVelocity,
   vertical_reference |-> rec.verticalReference]

\* The loop of lines 164-167 over the entities xs, in order: the messages
\* published and the topics advertised.
RECURSIVE PublishedBy(_, _)
PublishedBy(m, xs) ==
  IF xs = <<>> THEN <<>>
  ELSE (IF AfterPublish(m[Head(xs)]).pub /\ m[Head(xs)].topic # ""
        THEN <<Reading(Head(xs), m[Head(xs)])>> ELSE <<>>)
         \o PublishedBy(m, Tail(xs))

RECURSIVE AdvertisedBy(_, _)
AdvertisedBy(m, xs) ==
  IF xs = <<>> THEN <<>>
  ELSE (IF Advertises(m[Head(xs)]) THEN <<m[Head(xs)].topic>> ELSE <<>>)
         \o AdvertisedBy(m, Tail(xs))

\* The guard of line 159.
PostUpdateNeverReturns(paused) == FALSE

PostUpdateReturns(paused) == paused

\* Altimeter::PostUpdate, called after PreUpdate and physics in every tick.
PostUpdate(paused) ==
  /\ ~crashed
  /\ phase = "PostUpdate"
  /\ phase' = "PreUpdate"
  /\ UNCHANGED <<ecm, initialized, crashed>>
  /\ UNCHANGED logVars
  /\ IF PostUpdateReturns(paused)
     THEN /\ UNCHANGED entitySensorMap
          /\ last' = AltLast("PostUpdate", paused, <<>>, <<>>, <<>>)
     ELSE LET updated == UpdateAltimeters(entitySensorMap, ecm)
              order   == SortedSeq(DOMAIN updated)
          IN /\ entitySensorMap' = [x \in DOMAIN updated |-> AfterPublish(updated[x])]
             /\ last' = AltLast("PostUpdate", paused,
                                PublishedBy(updated, order),
                                AdvertisedBy(updated, order),
                                UpdateErrors(entitySensorMap, ecm))

\* The physics phase of a tick, between Update and PostUpdate: the derived
\* components of one sensor change.
Physics ==
  /\ ~crashed
  /\ phase = "PostUpdate"
  /\ \E x \in DOMAIN ecm.worldPose \cap DOMAIN ecm.worldLinVel, mv \in Motions :
       ecm' = [ecm EXCEPT !.worldPose = With(@, x, mv[1]),
                          !.worldLinVel = With(@, x, mv[2])]
  /\ last' = AltLast("environment", FALSE, <<>>, <<>>, <<>>)
  /\ UNCHANGED altVars
  /\ UNCHANGED logVars

\* Another system creates an altimeter sensor under an existing link.
SpawnAltimeter ==
  /\ ~crashed
  /\ ecm.entityCount < MaxEntities
  /\ Cardinality(DOMAIN ecm.altimeter \cup DOMAIN entitySensorMap) < MaxSensors
  /\ \E link \in { ecm.parent[x] : x \in DOMAIN ecm.altimeter \cap DOMAIN ecm.parent } :
       LET new == ecm.entityCount + 1
       IN ecm' = [ecm EXCEPT
                    !.entities = @ \cup {new},
                    !.entityCount = new,
                    !.name = With(@, new, "alt_new"),
                    !.parent = With(@, new, link),
                    !.pose = With(@, new, 0),
                    !.altimeter = With(@, new, NoTopic),
                    !.worldPose = With(@, new, 0),
                    !.worldLinVel = With(@, new, 0)]
  /\ last' = AltLast("environment", FALSE, <<>>, <<>>, <<>>)
  /\ UNCHANGED altVars
  /\ UNCHANGED logVars

\* An ECM command destroys an altimeter sensor entity with its components.
RemoveAltimeter ==
  /\ ~crashed
  /\ \E x \in DOMAIN ecm.altimeter :
       ecm' = [ecm EXCEPT
                 !.entities = @ \ {x},
                 !.name = Without(@, {x}),
                 !.parent = Without(@, {x}),
                 !.pose = Without(@, {x}),
                 !.altimeter = Without(@, {x}),
                 !.worldPose = Without(@, {x}),
                 !.worldLinVel = Without(@, {x})]
  /\ last' = AltLast("environment", FALSE, <<>>, <<>>, <<>>)
  /\ UNCHANGED altVars
  /\ UNCHANGED logVars

----------------------------------------------------------------------------
(* Worlds the Altimeter system starts in *)

LocalZs == 0..MaxZ

\* world <- model "rover" <- link "base" <- sensor "alt0"
RoverWorld(zm, zs) ==
  [entities |-> 1..4, entityCount |-> 4, world |-> {1},
   name |-> <<"world", "rover", "base", "alt0">>,
   parent |-> (2 :> 1) @@ (3 :> 2) @@ (4 :> 3),
   pose |-> (2 :> zm) @@ (3 :> 0) @@ (4 :> zs),
   altimeter |-> (4 :> NoTopic),
   worldPose |-> (4 :> 0),
   worldLinVel |-> (4 :> 0)]

\* world <- model "robot" <- model "tool" <- link "arm" <- sensor "alt0"
NestedWorld(zm, zs) ==
  [entities |-> 1..5, entityCount |-> 5, world |-> {1},
   name |-> <<"world", "robot", "tool", "arm", "alt0">>,
   parent |-> (2 :> 1) @@ (3 :> 2) @@ (4 :> 3) @@ (5 :> 4),
   pose |-> (2 :> zm) @@ (3 :> 1) @@ (4 :> 0) @@ (5 :> zs),
   altimeter |-> (5 :> NoTopic),
   worldPose |-> (5 :> 0),
   worldLinVel |-> (5 :> 0)]

\* world <- link "base" <- sensor "alt0"
LinkWorld(zs) ==
  [entities |-> 1..3, entityCount |-> 3, world |-> {1},
   name |-> <<"world", "base", "alt0">>,
   parent |-> (2 :> 1) @@ (3 :> 2),
   pose |-> (2 :> 0) @@ (3 :> zs),
   altimeter |-> (3 :> NoTopic),
   worldPose |-> (3 :> 0),
   worldLinVel |-> (3 :> 0)]

\* The rover with a second sensor "alt1" whose sdf has a <topic> element.
TwoSensorWorld(t) ==
  LET w == RoverWorld(1, 1)
  IN [w EXCEPT
        !.entities = 1..5, !.entityCount = 5,
        !.name = With(@, 5, "alt1"),
        !.parent = With(@, 5, 3),
        !.pose = With(@, 5, 0),
        !.altimeter = With(@, 5, Topic(t)),
        !.worldPose = With(@, 5, 0),
        !.worldLinVel = With(@, 5, 0)]

\* The rover whose sensor has no WorldPose and WorldLinearVelocity yet.
UnderivedWorld ==
  [RoverWorld(1, 1) EXCEPT !.worldPose = <<>>, !.worldLinVel = <<>>]

\* The rover with the Name of entity x missing.
UnnamedWorld(x) == [RoverWorld(0, 1) EXCEPT !.name = Without(@, {x})]

\* The rover whose sensor has no ParentEntity.
OrphanWorld == [RoverWorld(0, 1) EXCEPT !.parent = Without(@, {4})]

AltWorlds ==
  { RoverWorld(zm, zs) : zm \in LocalZs, zs \in LocalZs }
    \cup { NestedWorld(zm, MaxZ) : zm \in LocalZs }
    \cup { LinkWorld(zs) : zs \in LocalZs }
    \cup { TwoSensorWorld(t) : t \in {"", "/custom", "/bad topic"} }
    \cup { UnderivedWorld, OrphanWorld }
    \cup { UnnamedWorld(x) : x \in 2..4 }

AltInit ==
  /\ ecm \in AltWorlds
  /\ initialized = FALSE
  /\ entitySensorMap = <<>>
  /\ crashed = FALSE
  /\ phase = "PreUpdate"
  /\ last = AltLast("none", FALSE, <<>>, <<>>, <<>>)
  /\ disk = ConfigInput(GoodFs, Scene(<<>>, 0, 0), <<>>)
  /\ batch = <<>>
  /\ iter = 1
  /\ printedEnd = FALSE
  /\ errLog = <<>>
  /\ warnLog = <<>>
  /\ msgLog = <<>>
  /\ events = <<>>
  /\ logOpened = FALSE

AltNext ==
  \/ PreUpdate
  \/ \E paused \in BOOLEAN : PostUpdate(paused)
  \/ Physics
  \/ SpawnAltimeter
  \/ RemoveAltimeter

AltSpec == AltInit /\ [][AltNext]_vars

----------------------------------------------------------------------------
(* Properties of Altimeter *)

\* C10: a PostUpdate call with paused = true leaves every sensor record
\* (topic, verticalPosition, verticalVelocity, verticalReference, publisher)
\* as it is, advertises no topic, publishes no message and reports nothing.
C10_PausedPostUpdateDoesNothing ==
  [][(last'.op = "PostUpdate" /\ last'.paused) =>
       /\ UNCHANGED <<entitySensorMap, initialized, ecm>>
       /\ last'.published = <<>>
       /\ last'.advertised = <<>>
       /\ last'.errors = <<>>]_vars

\* A paused PostUpdate was called when a running one would have changed a
\* record, advertised its topic and published a reading.
C10_Witness ==
  /\ last.op = "PostUpdate" /\ last.paused
  /\ \E x \in DOMAIN entitySensorMap \cap Matched(ecm) :
       /\ ~entitySensorMap[x].pub
       /\ entitySensorMap[x].topic # ""
       /\ entitySensorMap[x].verticalPosition
            # ecm.worldPose[x] - entitySensorMap[x].verticalReference

\* The step is a call of PostUpdate that is not paused.
PostUpdateRan == last'.op = "PostUpdate" /\ ~last'.paused

\* The readings a call published for entity x.
ReadingsFor(call, x) ==
  { i \in 1..Len(call.published) : call.published[i].entity = x }

\* C11: every reading a running PostUpdate publishes for an entity that
\* carries Altimeter, WorldPose and WorldLinearVelocity in that tick has
\* vertical_position + vertical_reference equal to the entity's world height
\* and vertical_velocity equal to its vertical world velocity.
C11_ReadingMatchesWorld ==
  [][PostUpdateRan =>
       \A i \in 1..Len(last'.published) :
         LET r == last'.published[i]
         IN r.entity \in Matched(ecm) =>
              /\ r.vertical_position + r.vertical_reference = ecm.worldPose[r.entity]
              /\ r.vertical_velocity = ecm.worldLinVel[r.entity]]_vars

\* A running PostUpdate published, for a sensor with a reference other than
\* zero that physics had moved, a reading with a position other than zero.
C11_Witness ==
  /\ last.op = "PostUpdate" /\ ~last.paused
  /\ \E i \in 1..Len(last.published) :
       LET r == last.published[i]
       IN /\ r.entity \in Matched(ecm)
          /\ r.vertical_reference # 0
          /\ r.vertical_position # 0
          /\ r.vertical_velocity # 0

\* The ancestors of entity x below the world root, nearest first.
RECURSIVE Ancestors(_, _)
Ancestors(x, e) ==
  IF ~Has(e.parent, x) \/ e.parent[x] \in e.world THEN <<>>
  ELSE <<e.parent[x]>> \o Ancestors(e.parent[x], e)

\* The parent chain of entity x ends at the world root.
RECURSIVE ReachesWorld(_, _)
ReachesWorld(x, e) ==
  Has(e.parent, x) /\ (e.parent[x] \in e.world \/ ReachesWorld(e.parent[x], e))

\* Sensor x hangs under a link under k >= 0 models under the world, and
\* every entity of the chain is named.
WellFormedChain(x, e) ==
  /\ Has(e.name, x)
  /\ Has(e.parent, x)
  /\ Has(e.name, e.parent[x])
  /\ ReachesWorld(e.parent[x], e)
  /\ \A i \in 1..Len(Ancestors(e.parent[x], e)) :
       Has(e.name, Ancestors(e.parent[x], e)[i])

\* "/model/" + name for the models ms (nearest first), outermost first.
RECURSIVE ModelPath(_, _)
ModelPath(ms, e) ==
  IF ms = <<>> THEN ""
  ELSE ModelPath(Tail(ms), e) \o "/model/" \o e.name[Head(ms)]

\* The default topic the documentation gives for sensor x.
ExpectedTopic(x, e) ==
  ModelPath(Ancestors(e.parent[x], e), e)
    \o "/link/" \o e.name[e.parent[x]]
    \o "/sensor/" \o e.name[x] \o "/altimeter"

\* C12: when every sensor without a configured topic has a fully named chain
\* sensor -> link -> models -> world, the first PreUpdate gives each of them
\* the topic "/model/"+mk ... "/model/"+m1 "/link/"+link "/sensor/"+sensor
\* "/altimeter" (outermost model first, nothing for the world), and asking
\* the resolver again on the unchanged graph returns the same string.
C12_DefaultTopicFormat ==
  [][(/\ last'.op = "PreUpdate"
      /\ ~initialized
      /\ \A x \in NeedsDefault(ecm) : WellFormedChain(x, ecm)) =>
       \A x \in NeedsDefault(ecm) :
         /\ x \in DOMAIN entitySensorMap'
         /\ entitySensorMap'[x].topic = ExpectedTopic(x, ecm)
         /\ DefaultTopic(x, ecm') = entitySensorMap'[x].topic]_vars

\* The first PreUpdate resolved the topic of a sensor whose link hangs under
\* two nested models.
C12_Witness ==
  /\ last.op = "PreUpdate"
  /\ initialized
  /\ \E x \in DOMAIN entitySensorMap :
       entitySensorMap[x].topic
         \in { "/model/robot/model/tool/link/arm/sensor/alt0/altimeter" }

\* C13: every key of the sensor map is an entity that still exists in the
\* ECM, and no reading is published for an entity that was destroyed.
C13_AsStated ==
  /\ \A x \in DOMAIN entitySensorMap : x \in ecm.entities
  /\ \A i \in 1..Len(last.published) : last.published[i].entity \in ecm.entities

\* C14: a first PreUpdate that returns leaves one record for every entity
\* carrying an Altimeter component and sets initialized; from then on
\* initialized stays set, no step adds or removes a key of the map or changes
\* a record's verticalReference, and a PreUpdate call leaves the whole map as
\* it is, so an altimeter entity created later never gets a record.
C14_OneShotDiscovery ==
  [][(/\ (last'.op = "PreUpdate" /\ ~initialized /\ ~crashed') =>
           /\ initialized'
           /\ DOMAIN entitySensorMap' = DOMAIN ecm.altimeter
      /\ initialized =>
           /\ initialized'
           /\ DOMAIN entitySensorMap' = DOMAIN entitySensorMap
           /\ \A x \in DOMAIN entitySensorMap :
                entitySensorMap'[x].verticalReference
                  = entitySensorMap[x].verticalReference
      /\ (last'.op = "PreUpdate" /\ initialized) =>
           UNCHANGED entitySensorMap)]_vars

\* A PreUpdate call after the first one returned while an entity carrying an
\* Altimeter component, created in the meantime, had no record.
C14_Witness ==
  /\ last.op = "PreUpdate"
  /\ initialized
  /\ entitySensorMap # <<>>
  /\ DOMAIN ecm.altimeter \ DOMAIN entitySensorMap # {}

\* C15: a first PreUpdate whose topic resolver meets an absent Name or
\* ParentEntity component reports an error, and the process neither dies
\* nor uses what a read through the absent component yields.
C15_AsStated ==
  [][(/\ last'.op = "PreUpdate"
      /\ ~initialized
      /\ \E x \in NeedsDefault(ecm) : ~DefaultTopicDefined(x, ecm)) =>
       /\ ~crashed'
       /\ last'.errors # <<>>]_vars

\* The topics a call advertised.
AdvertisedTopics(call) == { call.advertised[i] : i \in 1..Len(call.advertised) }

\* C16: a PostUpdate that is not paused publishes, for every record of the
\* map, exactly one reading holding the record's values after this tick's
\* update; it advertises the topic of a record that has not published yet,
\* which from then on has its publisher, and never advertises the topic of
\* a record that has published before.
C16_AsStated ==
  [][PostUpdateRan =>
       \A x \in DOMAIN entitySensorMap :
         /\ Cardinality(ReadingsFor(last', x)) = 1
         /\ \A i \in ReadingsFor(last', x) :
              last'.published[i] = Reading(x, entitySensorMap'[x])
         /\ entitySensorMap[x].pub =>
              entitySensorMap[x].topic \notin AdvertisedTopics(last')
         /\ ~entitySensorMap[x].pub =>
              /\ entitySensorMap[x].topic \in AdvertisedTopics(last')
              /\ entitySensorMap'[x].pub]_vars

\* C17: no record of the map ever has an empty topic, and a first PreUpdate
\* that returns gives each record the <topic> of its sdf when there is one
\* and it is not empty, and otherwise the default topic of its parent chain
\* (compared here for the chains that are fully named).
C17_TopicNeverEmpty ==
  [][(/\ \A x \in DOMAIN entitySensorMap' : entitySensorMap'[x].topic # ""
      /\ (last'.op = "PreUpdate" /\ ~initialized /\ ~crashed') =>
           \A x \in DOMAIN ecm.altimeter :
             IF ecm.altimeter[x].hasTopic /\ ecm.altimeter[x].topic # ""
             THEN entitySensorMap'[x].topic = ecm.altimeter[x].topic
             ELSE WellFormedChain(x, ecm) =>
                    entitySensorMap'[x].topic = ExpectedTopic(x, ecm))]_vars

\* The first PreUpdate created the record of a sensor whose sdf has an empty
\* <topic> element and the record of a sensor whose sdf has none.
C17_Witness ==
  /\ last.op = "PreUpdate"
  /\ initialized
  /\ \E x \in DOMAIN entitySensorMap \cap DOMAIN ecm.altimeter :
       /\ ecm.altimeter[x].hasTopic
       /\ ecm.altimeter[x].topic = ""
       /\ entitySensorMap[x].topic = ExpectedTopic(x, ecm)
  /\ \E x \in DOMAIN entitySensorMap \cap DOMAIN ecm.altimeter :
       ~ecm.altimeter[x].hasTopic

\* The entities a call reported an error for.
ErrorEntities(call) == { call.errors[i] : i \in 1..Len(call.errors) }

\* C18: in a PostUpdate that is not paused, every entity with Altimeter,
\* WorldPose and WorldLinearVelocity but without a record gets one error and
\* nothing else (no record, no reading, the process goes on, no error for
\* any other entity), and every other such entity has its record updated
\* from this tick's world pose and velocity and, through its publisher,
\* published in the same call.
C18_MissingRecordOnlyReported ==
  [][PostUpdateRan =>
       /\ ErrorEntities(last') = Matched(ecm) \ DOMAIN entitySensorMap
       /\ Len(last'.errors) = Cardinality(Matched(ecm) \ DOMAIN entitySensorMap)
       /\ DOMAIN entitySensorMap' = DOMAIN entitySensorMap
       /\ ~crashed'
       /\ \A x \in Matched(ecm) \ DOMAIN entitySensorMap :
            ReadingsFor(last', x) = {}
       /\ \A y \in Matched(ecm) \cap DOMAIN entitySensorMap :
            /\ entitySensorMap'[y].verticalPosition
                 = ecm.worldPose[y] - entitySensorMap[y].verticalReference
            /\ entitySensorMap'[y].verticalVelocity = ecm.worldLinVel[y]
            /\ entitySensorMap'[y].pub =>
                 \E i \in ReadingsFor(last', y) :
                   last'.published[i] = Reading(y, entitySensorMap'[y])]_vars

\* A running PostUpdate reported a matched entity without a record and, in
\* the same call, published the new values of another sensor's record.
C18_Witness ==
  /\ last.op = "PostUpdate" /\ ~last.paused
  /\ last.errors # <<>>
  /\ \E i \in 1..Len(last.published) :
       /\ last.published[i].entity \in Matched(ecm)
       /\ last.published[i].vertical_position # 0
       /\ last.published[i].vertical_velocity # 0

----------------------------------------------------------------------------
(* Further properties of LogPlayback *)

\* The step is an Update call that applies a Pose_V message.
PoseVApplied ==
  /\ UpdateRan
  /\ OnMessage
  /\ iter' = iter + 1
  /\ batch[iter].type = PoseVType

\* The entries of a Pose_V message that name entity x.
EntriesNaming(posev, x) == { i \in 1..Len(posev) : posev[i].id = x }

\* C19: an Update call that applies a Pose_V message leaves the set of
\* entities and every component other than Pose as they are and attaches no
\* Pose component; an entity with a Pose component that the message names
\* gets the pose of the last entry naming it, and one it does not name keeps
\* its pose.
C19_PoseVTouchesOnlyNamedPoses ==
  [][PoseVApplied =>
       LET posev == batch[iter].poses
       IN /\ ecm' = [ecm EXCEPT !.pose = ecm'.pose]
          /\ DOMAIN ecm'.pose = DOMAIN ecm.pose
          /\ \A x \in DOMAIN ecm.pose :
               IF EntriesNaming(posev, x) = {}
               THEN ecm'.pose[x] = ecm.pose[x]
               ELSE ecm'.pose[x] = posev[SetMax(EntriesNaming(posev, x))].pos]_vars

\* An Update call applied a message that names entity 2 twice, with
\* different poses, while another entity with a Pose component was not
\* named.
C19_Witness ==
  /\ last.op = "Update"
  /\ iter > 1
  /\ iter <= End(batch)
  /\ batch[iter - 1].type = PoseVType
  /\ batch[iter - 1].poses = <<P(2, 1), P(2, 2)>>
  /\ 2 \in DOMAIN ecm.pose
  /\ ecm.pose[2] = 2
  /\ DOMAIN ecm.pose \ {2} # {}

\* One of the early checks of Configure fails on what the disk holds.
EarlyFailure ==
  \/ disk.fs.pathEmpty
  \/ ~disk.fs.isDirectory
  \/ ~disk.fs.dbExists
  \/ ~disk.fs.sdfExists
  \/ disk.fs.sdfErrors > 0
  \/ disk.fs.worldCount = 0

\* C20: a Configure call that fails an early check (path empty or not a
\* directory, state.tlog or state.sdf missing, scene not loaded or without a
\* world) reports one error and leaves the ECM, the events, the log and the
\* cursor untouched; any other Configure call creates the scene's models and
\* lights, emits one LoadPlugins event and opens the log, and a log that does
\* not open or holds no message is reported by that same call, on top of the
\* entities and the event.
C20_EarlyFailureTouchesNothing ==
  [][last'.op = "Configure" =>
       IF EarlyFailure
       THEN /\ UNCHANGED <<ecm, events, logOpened, batch, iter>>
            /\ Len(errLog') = Len(errLog) + 1
       ELSE /\ Cardinality(ecm'.entities) = Cardinality(ecm.entities)
                 + disk.scene.nModels + disk.scene.nLights
            /\ Len(events') = Len(events) + 1
            /\ logOpened'
            /\ (~disk.fs.logOpens \/ disk.log = <<>>) =>
                 /\ Len(errLog') > Len(errLog)
                 /\ errLog'[Len(errLog')] \in {ErrOpen, ErrEmpty}
            /\ (disk.fs.logOpens /\ disk.log # <<>>) => errLog' = errLog]_vars

\* Configure found the files of a scene with models and lights, failed to
\* load the scene description and returned.
C20_Witness ==
  /\ last.op = "Configure"
  /\ ~disk.fs.pathEmpty /\ disk.fs.isDirectory
  /\ disk.fs.dbExists /\ disk.fs.sdfExists
  /\ disk.fs.sdfErrors > 0
  /\ disk.scene.nModels + disk.scene.nLights > 0
  /\ ecm = EmptyEcm
  /\ events = <<>>
  /\ errLog = <<ErrSdf>>

----------------------------------------------------------------------------
(* Playback under a host that keeps ticking *)

\* The TimeReceived of the last message of the batch (0 for an empty one).
LastStamp(b) == IF b = <<>> THEN 0 ELSE b[Len(b)].time

\* A tick of a running simulation whose time has reached the end of the log.
DueUpdate ==
  \E simTime \in Times : simTime >= LastStamp(batch) /\ Update(FALSE, simTime)

\* The host configures the system and then keeps calling Update; the
\* simulation is not paused for ever and its time reaches the last message.
LiveSpec == Init /\ [][Next]_vars /\ WF_vars(Configure) /\ WF_vars(DueUpdate)

\* C21: when Update keeps being called with paused = false and a simTime at
\* or past the last message, the cursor eventually is exhausted and the
\* completion message written; printedEnd never goes back to false, and
\* whenever it is true the cursor is exhausted.
C21_PlaybackFinishes ==
  /\ <>(printedEnd /\ iter = End(batch) /\ FinishedCount = 1)
  /\ [](printedEnd => [](printedEnd /\ iter = End(batch)))

\* A log of MaxLog messages was played to its end by Update calls that were
\* not paused, and the completion message was written.
C21_Witness ==
  /\ printedEnd
  /\ Len(batch) = MaxLog
  /\ iter = End(batch)
  /\ last.op = "Update" /\ ~last.paused
  /\ last.simTime >= LastStamp(batch)

====
